---------------------------- MODULE Spec2Model ----------------------------
(***************************************************************************)
(* Model of the flare archive builder, pkg/flare/archive.go.               *)
(*                                                                         *)
(* Text (file contents, file names, host names, paths) is a sequence of    *)
(* one-character strings; the separator of a path is the character "/".    *)
(*                                                                         *)
(* The module holds five specifications over one set of variables:         *)
(*   SpecRedact   the redacting writer's other-services api_key replacer   *)
(*   SpecClean    hostname resolution and cleanDirectoryName               *)
(*   SpecWalk     the walk callback of walkConfigFilePaths on one file     *)
(*   SpecArchive  createArchive, one step per collector call               *)
(*   SpecParents  addParentPerms, one turn of its loop per step            *)
(***************************************************************************)
EXTENDS Integers, Sequences, FiniteSets, TLC

VARIABLES
    \* SpecRedact
    rIn, rOut, rAgain, rpc,
    \* SpecClean
    hRaw, hErr, hostname, hpc,
    \* SpecWalk
    wPrefix, wSrc, wIsDir, wFail, wNilPerms, wBundle, wDirs, wPerms, wErr, wpc,
    \* SpecArchive
    pc, local, ret, bundle, dirs, permsInfos, commits, gets, toWalk, faults,
    \* the calls of newRedactingWriter made so far: the path of each, and
    \* whether ensureParentDirsExist was called on that path before it
    opened,
    \* SpecParents
    pDirPath, pParent, pAdded, ppc

redactVars == <<rIn, rOut, rAgain, rpc>>
cleanVars == <<hRaw, hErr, hostname, hpc>>
walkVars ==
    <<wPrefix, wSrc, wIsDir, wFail, wNilPerms, wBundle, wDirs, wPerms, wErr, wpc>>
archVars ==
    <<pc, local, ret, bundle, dirs, permsInfos, commits, gets, toWalk, faults,
      opened>>
parentVars == <<pDirPath, pParent, pAdded, ppc>>
vars == <<redactVars, cleanVars, walkVars, archVars, parentVars>>

(***************************************************************************)
(* Text helpers.                                                           *)
(***************************************************************************)
RECURSIVE Flatten(_)
\* The concatenation of a sequence of texts.
Flatten(ss) == IF ss = <<>> THEN <<>> ELSE Head(ss) \o Flatten(Tail(ss))

\* Sequences over S of length 0..n.
SeqsUpTo(S, n) == UNION {[1..k -> S] : k \in 0..n}

HasPrefixAt(s, i, w) ==
    /\ i >= 1
    /\ i + Len(w) - 1 <= Len(s)
    /\ \A k \in 1..Len(w) : s[i + k - 1] = w[k]

Lower == {"a","b","c","d","e","f","g","h","i","j","k","l","m",
          "n","o","p","q","r","s","t","u","v","w","x","y","z"}
Upper == {"A","B","C","D","E","F","G","H","I","J","K","L","M",
          "N","O","P","Q","R","S","T","U","V","W","X","Y","Z"}
Digit == {"0","1","2","3","4","5","6","7","8","9"}

(***************************************************************************)
(* otherAPIKeysRx and otherAPIKeysReplacer.                                *)
(***************************************************************************)
\* \s of the regexp syntax.
SpaceChars == {" ", "\t", "\n", "\f", "\r"}

\* A variant of the value class without the colon.
APIKeyValueCharsNoColon ==
    Lower \cup Upper \cup Digit \cup
    {"\\", "/", "^", "]", "[", "(", ")", "{", "}", "!", "|", "%", ";",
     "\"", "~", ">", "<", "=", "#", "@", "$", "_", "-", "+"}

\* The character class of the value: [a-zA-Z0-9\\\/\^\]\[\(\){}!|%:;"~><=#@$_\-\+]
APIKeyValueChars ==
    Lower \cup Upper \cup Digit \cup
    {"\\", "/", "^", "]", "[", "(", ")", "{", "}", "!", "|", "%", ":", ";",
     "\"", "~", ">", "<", "=", "#", "@", "$", "_", "-", "+"}

APIKeyWord == <<"a","p","i","_","k","e","y">>

RECURSIVE SkipWhile(_, _, _)
\* The first position >= i of s whose character is not in C (Len(s)+1 if none):
\* a greedy C* from position i.
SkipWhile(s, i, C) ==
    IF i <= Len(s) /\ s[i] \in C THEN SkipWhile(s, i + 1, C) ELSE i

\* otherAPIKeysRx anchored at position i of s: the position after the match, or
\* 0 when the expression does not match there.
\* api_key \s* : \s* [class]+  : whitespace, the colon and the class are
\* such that the greedy match is the only one.
otherAPIKeysRxAt(s, i) ==
    IF ~HasPrefixAt(s, i, APIKeyWord) THEN 0
    ELSE LET j == SkipWhile(s, i + Len(APIKeyWord), SpaceChars) IN
         IF j > Len(s) \/ s[j] # ":" THEN 0
         ELSE LET k == SkipWhile(s, j + 1, SpaceChars)
                  e == SkipWhile(s, k, APIKeyValueChars) IN
              IF e > k THEN e ELSE 0

\* A replacement that keeps the key and drops the stars.
ReplFuncNoStars(b) == <<"a","p","i","_","k","e","y",":"," ">>

\* otherAPIKeysReplacer.ReplFunc: the matched bytes are replaced by a
\* constant.
ReplFunc(b) ==
    <<"a","p","i","_","k","e","y",":"," ","*","*","*","*","*","*","*","*">>

RECURSIVE ReplaceAllFrom(_, _)
\* Regex.ReplaceAllFunc from position i: leftmost matches, none overlapping.
ReplaceAllFrom(s, i) ==
    IF i > Len(s) THEN <<>>
    ELSE LET e == otherAPIKeysRxAt(s, i) IN
         IF e # 0
         THEN ReplFunc(SubSeq(s, i, e - 1)) \o ReplaceAllFrom(s, e)
         ELSE <<s[i]>> \o ReplaceAllFrom(s, i + 1)

\* What a write through the writer of newRedactingWriter does to its buffer
\* with the registered otherAPIKeysReplacer.
Redact(s) == ReplaceAllFrom(s, 1)

(***************************************************************************)
(* cleanDirectoryName.                                                     *)
(***************************************************************************)
directoryNameMaxSize == 32

\* The characters directoryNameFilter, [^a-zA-Z0-9_-]+, leaves alone.
DirectoryNameChars == Lower \cup Upper \cup Digit \cup {"_", "-"}

RECURSIVE FilterFrom(_, _)
\* directoryNameFilter.ReplaceAllString(name, "_") from position i: every
\* maximal run of other characters becomes one underscore.
FilterFrom(s, i) ==
    IF i > Len(s) THEN <<>>
    ELSE IF s[i] \in DirectoryNameChars
         THEN <<s[i]>> \o FilterFrom(s, i + 1)
         ELSE LET AllChars == {s[n] : n \in 1..Len(s)}
                  e == SkipWhile(s, i, AllChars \ DirectoryNameChars) IN
              <<"_">> \o FilterFrom(s, e)

\* cleanDirectoryName without the cut to directoryNameMaxSize.
cleanDirectoryNameNoCut(name) == FilterFrom(name, 1)

cleanDirectoryName(name) ==
    LET filteredName == FilterFrom(name, 1) IN
    IF Len(filteredName) > directoryNameMaxSize
    THEN SubSeq(filteredName, 1, directoryNameMaxSize)
    ELSE filteredName

Unknown == <<"u","n","k","n","o","w","n">>

(***************************************************************************)
(* Paths: strings and path/filepath, with "/" the separator.               *)
(***************************************************************************)
Slash == <<"/">>
Dot == <<".">>

RECURSIVE LastIndexFrom(_, _, _)
\* The last position <= i of character c in s, 0 when there is none.
LastIndexFrom(s, i, c) ==
    IF i = 0 THEN 0 ELSE IF s[i] = c THEN i ELSE LastIndexFrom(s, i - 1, c)

LastIndex(s, c) == LastIndexFrom(s, Len(s), c)

HasSuffix(s, suffix) ==
    /\ Len(suffix) <= Len(s)
    /\ SubSeq(s, Len(s) - Len(suffix) + 1, Len(s)) = suffix

\* strings.TrimSuffix
TrimSuffix(s, suffix) ==
    IF HasSuffix(s, suffix) THEN SubSeq(s, 1, Len(s) - Len(suffix)) ELSE s

\* strings.Replace(s, old, "", 1): the first occurrence of old is removed.
RemoveFirst(s, old) ==
    LET at == {n \in 1..Len(s) : HasPrefixAt(s, n, old)} IN
    IF old = <<>> \/ at = {} THEN s
    ELSE LET n == CHOOSE k \in at : \A j \in at : k <= j IN
         SubSeq(s, 1, n - 1) \o SubSeq(s, n + Len(old), Len(s))

RECURSIVE TrimSlashes(_)
\* A path without its trailing separators; the root stays.
TrimSlashes(s) ==
    IF Len(s) > 1 /\ s[Len(s)] = "/" THEN TrimSlashes(SubSeq(s, 1, Len(s) - 1))
    ELSE s

RECURSIVE SplitFrom(_, _, _)
\* The elements of s from position i on, cur being the element under way:
\* what lies between separators, the empty elements left out.
SplitFrom(s, i, cur) ==
    IF i > Len(s) THEN (IF cur = <<>> THEN <<>> ELSE <<cur>>)
    ELSE IF s[i] = "/"
    THEN (IF cur = <<>> THEN <<>> ELSE <<cur>>) \o SplitFrom(s, i + 1, <<>>)
    ELSE SplitFrom(s, i + 1, Append(cur, s[i]))

DotDot == <<".", ".">>

RECURSIVE CleanElems(_, _, _)
\* The elements filepath.Clean keeps, out being those kept so far: "." goes,
\* ".." takes the element before it away, or goes when the path is rooted
\* and nothing is before it, or stays.
CleanElems(elems, out, rooted) ==
    IF elems = <<>> THEN out
    ELSE LET e == Head(elems) IN
         CleanElems(Tail(elems),
                    IF e = Dot THEN out
                    ELSE IF e # DotDot THEN Append(out, e)
                    ELSE IF out # <<>> /\ out[Len(out)] # DotDot
                    THEN SubSeq(out, 1, Len(out) - 1)
                    ELSE IF rooted THEN out
                    ELSE Append(out, e),
                    rooted)

RECURSIVE JoinElems(_)
\* strings.Join of the non-empty elements with the separator.
JoinElems(elems) ==
    IF elems = <<>> THEN <<>>
    ELSE IF Head(elems) = <<>> THEN JoinElems(Tail(elems))
    ELSE LET rest == JoinElems(Tail(elems)) IN
         IF rest = <<>> THEN Head(elems) ELSE Head(elems) \o Slash \o rest

\* filepath.Clean: runs of separators become one, "." elements go, ".."
\* elements go with the element before them, trailing separators go, the
\* root stays, the empty path becomes ".".
Clean(s) ==
    IF s = <<>> THEN Dot
    ELSE LET rooted == s[1] = "/"
             kept == JoinElems(CleanElems(SplitFrom(s, 1, <<>>), <<>>, rooted))
         IN IF rooted THEN Slash \o kept
            ELSE IF kept = <<>> THEN Dot ELSE kept

\* filepath.Ext: from the last dot of the last element, empty when none.
Ext(s) ==
    LET d == LastIndex(s, ".") IN
    IF d = 0 \/ d < LastIndex(s, "/") THEN <<>> ELSE SubSeq(s, d, Len(s))

\* filepath.Base
Base(s) ==
    IF s = <<>> THEN Dot
    ELSE LET t == TrimSlashes(s) IN
         IF t = Slash THEN Slash ELSE SubSeq(t, LastIndex(t, "/") + 1, Len(t))

\* filepath.Dir: all but the last element, cleaned.
Dir(s) == Clean(SubSeq(s, 1, LastIndex(s, "/")))

IsAbs(s) == Len(s) >= 1 /\ s[1] = "/"

\* filepath.Join: the non-empty elements, separated, cleaned; empty if none.
Join(elems) ==
    LET j == JoinElems(elems) IN IF j = <<>> THEN <<>> ELSE Clean(j)

\* The working directory of the process.
Cwd == <<"/","o","p","t">>

\* filepath.Abs, when os.Getwd succeeds.
Abs(s) == IF IsAbs(s) THEN Clean(s) ELSE Join(<<Cwd, s>>)

\* getFirstSuffix: the extension before the last one.
getFirstSuffix(s) == Ext(TrimSuffix(s, Ext(s)))

LowerLetters == <<"a","b","c","d","e","f","g","h","i","j","k","l","m",
                  "n","o","p","q","r","s","t","u","v","w","x","y","z">>
UpperLetters == <<"A","B","C","D","E","F","G","H","I","J","K","L","M",
                  "N","O","P","Q","R","S","T","U","V","W","X","Y","Z">>

ToLower(c) ==
    IF c \in Upper
    THEN LowerLetters[CHOOSE n \in 1..26 : UpperLetters[n] = c]
    ELSE c

MapLower(s) == [n \in 1..Len(s) |-> ToLower(s[n])]

\* cnfFileExtRx.Match, (?i)\.ya?ml : the expression is found somewhere in b.
cnfFileExtRxMatch(b) ==
    \E n \in 1..Len(b) :
        \/ HasPrefixAt(MapLower(b), n, <<".","y","m","l">>)
        \/ HasPrefixAt(MapLower(b), n, <<".","y","a","m","l">>)

\* The test of the walk callback of walkConfigFilePaths on a file name.
IsShippedConfigName(name) ==
    /\ Ext(name) # <<".","e","x","a","m","p","l","e">>
    /\ \/ cnfFileExtRxMatch(getFirstSuffix(name))
       \/ cnfFileExtRxMatch(Ext(name))

(***************************************************************************)
(* The workspace: the directories that exist and the files of the bundle.  *)
(***************************************************************************)
RECURSIVE DirsAbove(_)
\* The directory of p and every directory above it.
DirsAbove(p) ==
    LET d == Dir(p) IN
    IF d = p \/ d = Dot THEN {} ELSE {d} \cup DirsAbove(d)

\* ensureParentDirsExist(p): os.MkdirAll(filepath.Dir(p)).
ensureParentDirsExist(ds, p) == ds \cup DirsAbove(p)

\* A file of the bundle: where it is, the file it was copied from (empty for
\* data that is no copy), what wrote it, and what it holds.
Entry(path, src, via, content) ==
    [path |-> path, src |-> src, via |-> via, content |-> content]

\* The file at e.path is created or truncated and holds what e says.
Put(files, e) == {x \in files : x.path # e.path} \cup {e}

\* The entry of the bundle a writer of newRedactingWriter leaves at dst.
RedactedEntry(dst, src, content) == Entry(dst, src, "redacting", content)

\* What most collectors do with a file f of the bundle: ensureParentDirsExist,
\* newRedactingWriter, Write.  st holds the bundle and the directories, fail
\* is the call that fails ("source": the data could not be had).
WriteThroughWriter(st, f, src, content, fail) ==
    IF fail \in {"source", "mkdir"} THEN [st EXCEPT !.err = TRUE]
    ELSE LET made == ensureParentDirsExist(st.dirs, f)
             calls == st.opened \cup {[path |-> f, ensured |-> TRUE]}
         IN
         IF fail = "open" THEN [st EXCEPT !.dirs = made, !.opened = calls, !.err = TRUE]
         ELSE IF fail = "write"
         THEN [st EXCEPT !.dirs = made, !.opened = calls, !.err = TRUE,
                         !.bundle = Put(@, RedactedEntry(f, src, "empty"))]
         ELSE [st EXCEPT !.dirs = made, !.opened = calls, !.err = FALSE,
                         !.bundle = Put(@, RedactedEntry(f, src, content))]

\* newRedactingWriter and Write with no ensureParentDirsExist before: the
\* file cannot be opened in a directory that does not exist.
WriteNoMkdir(st, f, content, fail) ==
    LET calls == st.opened \cup {[path |-> f, ensured |-> FALSE]} IN
    IF fail = "source" THEN [st EXCEPT !.err = TRUE]
    ELSE IF fail = "open" \/ Dir(f) \notin st.dirs
    THEN [st EXCEPT !.opened = calls, !.err = TRUE]
    ELSE IF fail = "write"
    THEN [st EXCEPT !.opened = calls, !.err = TRUE,
                    !.bundle = Put(@, RedactedEntry(f, <<>>, "empty"))]
    ELSE [st EXCEPT !.opened = calls, !.err = FALSE,
                    !.bundle = Put(@, RedactedEntry(f, <<>>, content))]

\* writeRegistryJSON, writeVersionHistory, writeInstallInfo: os.Open of the
\* original, ensureParentDirsExist, os.OpenFile, io.Copy.
CopyThroughOSFile(st, src, f, fail) ==
    IF fail \in {"source", "mkdir"} THEN [st EXCEPT !.err = TRUE]
    ELSE LET made == ensureParentDirsExist(st.dirs, f) IN
         IF fail = "open" THEN [st EXCEPT !.dirs = made, !.err = TRUE]
         ELSE IF fail = "write"
         THEN [st EXCEPT !.dirs = made, !.err = TRUE,
                         !.bundle = Put(@, Entry(f, src, "osfile", "empty"))]
         ELSE [st EXCEPT !.dirs = made, !.err = FALSE,
                         !.bundle = Put(@, Entry(f, src, "osfile", "file"))]

\* util.CopyFileAll(src, dst): the directories of dst are made and src is
\* copied as it is.
CopyFileAll(st, src, dst, fail) ==
    IF fail = "copy" THEN [st EXCEPT !.err = TRUE]
    ELSE [st EXCEPT !.dirs = ensureParentDirsExist(@, dst), !.err = FALSE,
                    !.bundle = Put(@, Entry(dst, src, "copyfile", "file"))]

(***************************************************************************)
(* The permissions tracker.                                                *)
(***************************************************************************)
\* permsInfos.add(path): the path is recorded when its stat succeeds.
PermsAdd(perms, path, statOk) == IF statOk THEN perms \cup {path} ELSE perms

\* len(filepath.Dir(parent)) == len(parent): a loop that never ends.
IsOwnParentNever(p) == FALSE

\* len(filepath.Dir(parent)) == len(parent): parent is the root.
IsOwnParent(p) == Len(Dir(p)) = Len(p)

RECURSIVE AddParentLoop(_, _)
\* The loop of addParentPerms from p.
AddParentLoop(p, perms) ==
    IF p = Dot THEN perms
    ELSE IF IsOwnParent(p) THEN PermsAdd(perms, p, TRUE)
    ELSE AddParentLoop(Dir(p), PermsAdd(perms, p, TRUE))

addParentPerms(dirPath, perms) == AddParentLoop(Dir(dirPath), perms)

(***************************************************************************)
(* Inputs of the bounded checks.                                           *)
(***************************************************************************)
MaxTokens == 5
MaxHostSeed == 3
MaxRepeat == 12

\* Pieces the scrubbed texts are made of: the key, the colon, whitespace, a
\* character of the value class, and two characters outside it.
RedactTokens == {APIKeyWord, <<":">>, <<" ">>, <<"x">>, <<"*">>, <<".">>}
RedactInputs == {Flatten(ts) : ts \in SeqsUpTo(RedactTokens, MaxTokens)}

MaxExts == 2

\* Extensions the walked file names are made of.
WalkExts ==
    {<<".","y","a","m","l">>,
     <<".","y","m","l">>,
     <<".","Y","A","M","L">>,
     <<".","y","a","m","l","x">>,
     <<".","y","m","l","f","o","o">>,
     <<".","b","a","k">>,
     <<".","e","x","a","m","p","l","e">>}

\* "name" followed by up to MaxExts extensions.
WalkNames ==
    {<<"n","a","m","e">> \o Flatten(es) : es \in SeqsUpTo(WalkExts, MaxExts)}

\* confSearchPaths of CreateArchive: prefix to directory.
ConfPrefixes == {<<>>, <<"d","i","s","t">>, <<"c","h","e","c","k","s","d">>}
ConfRoot(prefix) ==
    IF prefix = <<>> THEN <<"/","e","t","c","/","d","d","/","c","o","n","f",".","d">>
    ELSE IF prefix = <<"d","i","s","t">> THEN <<"/","o","p","t","/","d","i","s","t","/","c","o","n","f",".","d">>
    ELSE <<"/","o","p","t","/","c","h","e","c","k","s",".","d">>

\* The directories of a root the walked files are in: the root, or root/dist.
WalkSubdirs == {<<>>, <<"d","i","s","t">>}

\* tempDir and hostname of createArchive.
TempDir == <<"/","t","m","p","/","f">>
HostDir == <<"h","o","s","t">>

\* Names of the members of the bundle.
StatusLog == <<"s","t","a","t","u","s",".","l","o","g">>
ConfigCheckLog == <<"c","o","n","f","i","g","-","c","h","e","c","k",".","l","o","g">>
TaggerListJSON == <<"t","a","g","g","e","r","-","l","i","s","t",".","j","s","o","n">>
LocalFile == <<"l","o","c","a","l">>
RuntimeConfigDump == <<"r","u","n","t","i","m","e","_","c","o","n","f","i","g","_","d","u","m","p",".","y","a","m","l">>
DiagnoseLog == <<"d","i","a","g","n","o","s","e",".","l","o","g">>
RegistryJSON == <<"r","e","g","i","s","t","r","y",".","j","s","o","n">>
VersionHistoryJSON == <<"v","e","r","s","i","o","n","-","h","i","s","t","o","r","y",".","j","s","o","n">>
SecretsLog == <<"s","e","c","r","e","t","s",".","l","o","g">>
EnvvarsLog == <<"e","n","v","v","a","r","s",".","l","o","g">>
HealthYAML == <<"h","e","a","l","t","h",".","y","a","m","l">>
TelemetryLog == <<"t","e","l","e","m","e","t","r","y",".","l","o","g">>
routineDumpFilename == <<"g","o","-","r","o","u","t","i","n","e","-","d","u","m","p",".","l","o","g">>
DockerInspectLog == <<"d","o","c","k","e","r","_","i","n","s","p","e","c","t",".","l","o","g">>
DockerPsLog == <<"d","o","c","k","e","r","_","p","s",".","l","o","g">>
InstallInfo == <<"i","n","s","t","a","l","l","_","i","n","f","o">>
PermissionsLog == <<"p","e","r","m","i","s","s","i","o","n","s",".","l","o","g">>

\* Directories of the bundle.
ExpvarDir == <<"e","x","p","v","a","r">>
TraceAgent == <<"t","r","a","c","e","-","a","g","e","n","t">>
SystemProbe == <<"s","y","s","t","e","m","-","p","r","o","b","e">>
EtcDir == <<"e","t","c">>
ConfdDir == <<"c","o","n","f","d">>
LogsDir == <<"l","o","g","s">>

\* getSystemProbePath replaces the file name by this one.
SystemProbeYAML == <<"s","y","s","t","e","m","-","p","r","o","b","e",".","y","a","m","l">>

\* The machine the flare is made on: what util.GetHostname returns, the auth
\* token file, logs_config.run_path, the configuration file in use and the
\* log file of the agent.
RawHost == <<"m","y",".","h","o","s","t">>
AuthTokenFile == <<"/","e","t","c","/","d","d","/","a","u","t","h","_","t","o","k","e","n">>
RunPath == <<"/","o","p","t","/","r","u","n">>
ConfigFileUsed == <<"/","e","t","c","/","d","d","/","d","a","t","a","d","o","g",".","y","a","m","l">>
LogFilePath == <<"/","v","a","r","/","l","o","g","/","d","d","/","a","g","e","n","t",".","l","o","g">>

RECURSIVE Repeat(_, _)
Repeat(s, n) == IF n = 0 THEN <<>> ELSE s \o Repeat(s, n - 1)

HostChars == {"a", "Z", "9", "_", "-", ".", "/"}
HostNames ==
    {Repeat(seed, n) : seed \in SeqsUpTo(HostChars, MaxHostSeed), n \in 0..MaxRepeat}

\* The variables of a specification that is not the one running.
RedactIdle == rIn = <<>> /\ rOut = <<>> /\ rAgain = <<>> /\ rpc = "idle"
CleanIdle == hRaw = <<>> /\ hErr = FALSE /\ hostname = <<>> /\ hpc = "idle"
WalkIdle ==
    /\ wPrefix = <<>> /\ wSrc = <<>> /\ wIsDir = FALSE /\ wFail = "none"
    /\ wNilPerms = FALSE /\ wBundle = {} /\ wDirs = {} /\ wPerms = {}
    /\ wErr = FALSE /\ wpc = "idle"
ArchIdle ==
    /\ pc = "idle" /\ local = FALSE /\ ret = "none" /\ bundle = {} /\ dirs = {}
    /\ permsInfos = {} /\ commits = 0 /\ gets = <<>> /\ toWalk = {} /\ faults = 0
    /\ opened = {}

ParentsIdle == pDirPath = <<>> /\ pParent = <<>> /\ pAdded = <<>> /\ ppc = "idle"

(***************************************************************************)
(* SpecRedact: a text is written through the redacting writer, and the     *)
(* scrubbed text is written through it again.                              *)
(***************************************************************************)
RedactInit ==
    /\ rIn \in RedactInputs
    /\ rOut = <<>>
    /\ rAgain = <<>>
    /\ rpc = "open"
    /\ CleanIdle /\ WalkIdle /\ ArchIdle /\ ParentsIdle

\* w.Write(rIn) on a writer of newRedactingWriter.
WriteRedacted ==
    /\ rpc = "open"
    /\ rOut' = Redact(rIn)
    /\ rpc' = "written"
    /\ UNCHANGED <<rIn, rAgain, cleanVars, walkVars, archVars, parentVars>>

\* The scrubbed text goes through the replacer a second time.
WriteAgain ==
    /\ rpc = "written"
    /\ rAgain' = Redact(rOut)
    /\ rpc' = "rewritten"
    /\ UNCHANGED <<rIn, rOut, cleanVars, walkVars, archVars, parentVars>>

RedactNext == WriteRedacted \/ WriteAgain

SpecRedact == RedactInit /\ [][RedactNext]_vars

(***************************************************************************)
(* SpecClean: the head of createArchive up to the sanitized hostname.      *)
(***************************************************************************)
CleanInit ==
    /\ hRaw \in HostNames
    /\ hErr \in BOOLEAN
    /\ hostname = <<>>
    /\ hpc = "start"
    /\ RedactIdle /\ WalkIdle /\ ArchIdle /\ ParentsIdle

\* createTempDir succeeds.
TempDirCreated ==
    /\ hpc = "start"
    /\ hpc' = "tempdir"
    /\ UNCHANGED <<hRaw, hErr, hostname, redactVars, walkVars, archVars, parentVars>>

\* createTempDir fails: return "", "unknown", err.
TempDirFailed ==
    /\ hpc = "start"
    /\ hostname' = Unknown
    /\ hpc' = "returned"
    /\ UNCHANGED <<hRaw, hErr, redactVars, walkVars, archVars, parentVars>>

\* util.GetHostname, with "unknown" on error.
GetHostname ==
    /\ hpc = "tempdir"
    /\ hostname' = IF hErr THEN Unknown ELSE hRaw
    /\ hpc' = "resolved"
    /\ UNCHANGED <<hRaw, hErr, redactVars, walkVars, archVars, parentVars>>

\* hostname = cleanDirectoryName(hostname)
CleanHostname ==
    /\ hpc = "resolved"
    /\ hostname' = cleanDirectoryName(hostname)
    /\ hpc' = "cleaned"
    /\ UNCHANGED <<hRaw, hErr, redactVars, walkVars, archVars, parentVars>>

CleanNext == TempDirCreated \/ TempDirFailed \/ GetHostname \/ CleanHostname

SpecClean == CleanInit /\ [][CleanNext]_vars

(***************************************************************************)
(* SpecWalk: filepath.Walk of walkConfigFilePaths calls the callback on    *)
(* one entry of the tree under the root of a prefix.                       *)
(***************************************************************************)
\* The destination of a shipped configuration file.
ConfDest(tempDir, host, prefix, filePath, src) ==
    Join(<<tempDir, host, <<"e","t","c">>, <<"c","o","n","f","d">>, prefix, RemoveFirst(src, filePath)>>)

\* The callback filepath.Walk is given in walkConfigFilePaths, on the entry
\* src of the tree under filePath: st and the result hold the bundle, the
\* directories, the tracker and the error returned.  fail is what goes wrong,
\* if anything ("read": WriteFromFile cannot read src).
WalkFn(tempDir, host, prefix, filePath, src, isDir, fail, nilPerms, st) ==
    IF fail = "nilinfo" \/ isDir \/ ~IsShippedConfigName(Base(src)) THEN st
    ELSE LET dst == ConfDest(tempDir, host, prefix, filePath, src)
             r == WriteThroughWriter(st, dst, src, "file",
                                     IF fail = "read" THEN "write" ELSE fail)
             added == PermsAdd(st.perms, src, TRUE)
         IN IF r.err \/ nilPerms THEN r
            ELSE [r EXCEPT !.perms = IF added # {}
                                     THEN addParentPerms(Abs(filePath), added)
                                     ELSE added]

WalkFails == {"none", "nilinfo", "mkdir", "open", "read"}

WalkInit ==
    /\ wPrefix \in ConfPrefixes
    /\ \E sub \in WalkSubdirs, name \in WalkNames :
          wSrc = Join(<<ConfRoot(wPrefix), sub, name>>)
    /\ wIsDir \in BOOLEAN
    /\ wFail \in WalkFails
    /\ wNilPerms \in BOOLEAN
    /\ wBundle = {}
    /\ wDirs = DirsAbove(TempDir) \cup {TempDir}
    /\ wPerms = {}
    /\ wErr = FALSE
    /\ wpc = "walk"
    /\ RedactIdle /\ CleanIdle /\ ArchIdle /\ ParentsIdle

WalkVisit ==
    /\ wpc = "walk"
    /\ LET r == WalkFn(TempDir, HostDir, wPrefix, ConfRoot(wPrefix), wSrc,
                       wIsDir, wFail, wNilPerms,
                       [bundle |-> wBundle, dirs |-> wDirs, perms |-> wPerms,
                        opened |-> {}, err |-> FALSE]) IN
          /\ wBundle' = r.bundle
          /\ wDirs' = r.dirs
          /\ wPerms' = r.perms
          /\ wErr' = r.err
    /\ wpc' = "visited"
    /\ UNCHANGED <<wPrefix, wSrc, wIsDir, wFail, wNilPerms>>
    /\ UNCHANGED <<redactVars, cleanVars, archVars, parentVars>>

WalkNext == WalkVisit

SpecWalk == WalkInit /\ [][WalkNext]_vars

(***************************************************************************)
(* SpecArchive: createArchive, one step per call it makes.                 *)
(***************************************************************************)
MaxFaults == 1

\* The trees filepath.Walk goes through, in its order: the root first.
ConfTree(prefix) ==
    IF prefix = <<>>
    THEN <<[src |-> ConfRoot(prefix), isDir |-> TRUE],
           [src |-> Join(<<ConfRoot(prefix), <<"d","i","s","t">>>>), isDir |-> TRUE],
           [src |-> Join(<<ConfRoot(prefix), <<"d","i","s","t">>, <<"x",".","y","a","m","l">>>>), isDir |-> FALSE]>>
    ELSE IF prefix = <<"d","i","s","t">>
    THEN <<[src |-> ConfRoot(prefix), isDir |-> TRUE],
           [src |-> Join(<<ConfRoot(prefix), <<"x",".","y","a","m","l">>>>), isDir |-> FALSE]>>
    ELSE <<[src |-> ConfRoot(prefix), isDir |-> TRUE],
           [src |-> Join(<<ConfRoot(prefix), <<"c",".","p","y">>>>), isDir |-> FALSE]>>

LogTree ==
    <<[src |-> Dir(LogFilePath), isDir |-> TRUE],
      [src |-> LogFilePath, isDir |-> FALSE],
      [src |-> LogFilePath \o <<".","1">>, isDir |-> FALSE],
      [src |-> Join(<<Dir(LogFilePath), <<"n","o","t","e","s",".","t","x","t">>>>), isDir |-> FALSE]>>

IOFails == {"none", "mkdir", "open", "write"}
SourceFails == IOFails \cup {"source"}
HTTPResults == {"ok", "transport", "status"}

\* A file of the bundle, under tempDir/hostname.
HostFile(elems) == Join(<<TempDir, hostname>> \o elems)

Workspace ==
    [bundle |-> bundle, dirs |-> dirs, perms |-> permsInfos, opened |-> opened,
     err |-> FALSE]

\* The step leaves the workspace as r says.
Leaves(r) ==
    /\ bundle' = r.bundle /\ dirs' = r.dirs /\ permsInfos' = r.perms
    /\ opened' = r.opened

\* At most MaxFaults calls fail in a run.
Faulty(fail) ==
    /\ fail # "none" => faults < MaxFaults
    /\ faults' = IF fail = "none" THEN faults ELSE faults + 1

ArchOthers == <<local, hRaw, hErr, hpc, redactVars, walkVars, parentVars>>

ArchFiles ==
    [c \in {"trace-agent", "telemetry", "stack"} |->
        IF c = "trace-agent" THEN <<ExpvarDir, TraceAgent>>
        ELSE IF c = "telemetry" THEN <<TelemetryLog>>
        ELSE <<routineDumpFilename>>]

ArchInit ==
    /\ pc = "start"
    /\ local \in BOOLEAN
    /\ ret = "none"
    /\ bundle = {}
    /\ dirs = {}
    /\ permsInfos = {}
    /\ commits = 0
    /\ gets = [c \in {"trace-agent", "telemetry", "stack"} |-> "notrun"]
    /\ toWalk = ConfPrefixes
    /\ faults = 0
    /\ opened = {}
    /\ hRaw = RawHost /\ hErr = FALSE /\ hostname = <<>> /\ hpc = "idle"
    /\ RedactIdle /\ WalkIdle /\ ParentsIdle

\* tempDir, err := createTempDir(); on error return "", "unknown", err.
createTempDir ==
    /\ pc = "start"
    /\ \E fail \in {"none", "mkdir"} :
          /\ Faulty(fail)
          /\ IF fail = "none"
             THEN /\ dirs' = DirsAbove(TempDir) \cup {TempDir}
                  /\ pc' = "hostname"
                  /\ UNCHANGED <<ret, hostname>>
             ELSE /\ ret' = "err"
                  /\ hostname' = Unknown
                  /\ pc' = "done"
                  /\ UNCHANGED dirs
    /\ UNCHANGED <<bundle, permsInfos, commits, gets, toWalk, opened, ArchOthers>>

\* util.GetHostname, "unknown" on error, cleanDirectoryName; permsInfos is
\* made empty.
resolveHostname ==
    /\ pc = "hostname"
    /\ \E failed \in BOOLEAN :
          /\ hErr' = failed
          /\ hostname' = cleanDirectoryName(IF failed THEN Unknown ELSE hRaw)
    /\ pc' = IF local THEN "local" ELSE "status"
    /\ UNCHANGED <<opened, ret, bundle, dirs, permsInfos, commits, gets, toWalk, faults>>
    /\ UNCHANGED <<local, hRaw, hpc, redactVars, walkVars, parentVars>>

\* A call of the local branch: its error is returned by createArchive.
LocalStep(from, to, file) ==
    /\ pc = from
    /\ \E fail \in IOFails :
          /\ Faulty(fail)
          /\ LET r == WriteThroughWriter(Workspace, HostFile(<<file>>), <<>>,
                                         "notice", fail) IN
                /\ Leaves(r)
                /\ ret' = IF r.err THEN "err" ELSE ret
                /\ pc' = IF r.err THEN "done" ELSE to
    /\ UNCHANGED <<commits, gets, toWalk, hostname, ArchOthers>>

\* A call whose error is logged: a file written through the writer.
LoggedStep(from, to, file, fails) ==
    /\ pc = from
    /\ \E fail \in fails :
          /\ Faulty(fail)
          /\ Leaves(WriteThroughWriter(Workspace, HostFile(<<file>>), <<>>,
                                       "data", fail))
    /\ pc' = to
    /\ UNCHANGED <<ret, commits, gets, toWalk, hostname, ArchOthers>>

\* A call whose error is logged: a file copied with os.OpenFile and io.Copy.
CopiedStep(from, to, src, file) ==
    /\ pc = from
    /\ \E fail \in SourceFails :
          /\ Faulty(fail)
          /\ Leaves(CopyThroughOSFile(Workspace, src, HostFile(<<file>>), fail))
    /\ pc' = to
    /\ UNCHANGED <<ret, commits, gets, toWalk, hostname, ArchOthers>>

\* A call that is made only when a setting says so.
Skipped(from, to) ==
    /\ pc = from
    /\ pc' = to
    /\ UNCHANGED <<opened, ret, bundle, dirs, permsInfos, commits, gets, toWalk, faults,
                   hostname, ArchOthers>>

writeLocal == LocalStep("local", "statuslocal", LocalFile)

writeStatusFileLocal == LocalStep("statuslocal", "checklocal", StatusLog)

writeConfigCheckLocal == LocalStep("checklocal", "authtoken", ConfigCheckLog)

writeStatusFile == LoggedStep("status", "configcheck", StatusLog, SourceFails)

writeConfigCheck == LoggedStep("configcheck", "tagger", ConfigCheckLog, IOFails)

\* writeTaggerList: the writer is opened before the GET, so a GET that fails
\* ("source") leaves an empty file.
writeTaggerList ==
    /\ pc = "tagger"
    /\ \E fail \in SourceFails :
          /\ Faulty(fail)
          /\ Leaves(WriteThroughWriter(Workspace, HostFile(<<TaggerListJSON>>), <<>>,
                                       "data",
                                       IF fail = "source" THEN "write" ELSE fail))
    /\ pc' = "authtoken"
    /\ UNCHANGED <<ret, commits, gets, toWalk, hostname, ArchOthers>>

\* The auth token file is recorded when os.Stat finds it.
authTokenPerms ==
    /\ pc = "authtoken"
    /\ \E statOk \in BOOLEAN :
          permsInfos' = PermsAdd(permsInfos, AuthTokenFile, statOk)
    /\ pc' = "confdump"
    /\ UNCHANGED <<opened, ret, bundle, dirs, commits, gets, toWalk, faults, hostname,
                   ArchOthers>>

\* writeConfigFiles, to the call of walkConfigFilePaths.
writeRuntimeConfigDump ==
    /\ pc = "confdump"
    /\ \E fail \in SourceFails :
          /\ Faulty(fail)
          /\ LET r == WriteThroughWriter(Workspace, HostFile(<<RuntimeConfigDump>>),
                                         <<>>, "data", fail) IN
                /\ Leaves(r)
                /\ pc' = IF r.err THEN "expvar" ELSE "confwalk"
    /\ UNCHANGED <<ret, commits, gets, toWalk, hostname, ArchOthers>>

RECURSIVE WalkTree(_, _, _, _, _)
\* filepath.Walk over the entries of a tree with the callback of
\* walkConfigFilePaths; fail hits the first file that ships.  The walk ends
\* at the first error.
WalkTree(host, prefix, entries, fail, st) ==
    IF entries = <<>> \/ fail = "nilinfo" THEN st
    ELSE LET e == Head(entries)
             ships == ~e.isDir /\ IsShippedConfigName(Base(e.src))
             r == WalkFn(TempDir, host, prefix, ConfRoot(prefix), e.src, e.isDir,
                         IF ships THEN fail ELSE "none", FALSE, st)
         IN IF r.err THEN r
            ELSE WalkTree(host, prefix, Tail(entries),
                          IF ships THEN "none" ELSE fail, r)

\* walkConfigFilePaths: one turn of its loop over confSearchPaths, a map, so
\* in any order.  An error ends writeConfigFiles.
walkConfigFilePaths ==
    /\ pc = "confwalk"
    /\ \E prefix \in toWalk, fail \in WalkFails :
          /\ Faulty(fail)
          /\ LET r == WalkTree(hostname, prefix, ConfTree(prefix), fail, Workspace) IN
                /\ Leaves(r)
                /\ toWalk' = toWalk \ {prefix}
                /\ pc' = IF r.err THEN "expvar"
                         ELSE IF toWalk \ {prefix} = {} THEN "confused"
                         ELSE "confwalk"
    /\ UNCHANGED <<ret, commits, gets, hostname, ArchOthers>>

\* createConfigFiles(filePath, ...): the file is copied when os.Stat finds it,
\* and then recorded in the tracker.
createConfigFiles(filePath, host, exists, fail, st) ==
    IF ~exists THEN [st EXCEPT !.err = TRUE]
    ELSE LET r == WriteThroughWriter(st, Join(<<TempDir, host, EtcDir, Base(filePath)>>),
                                     filePath, "file",
                                     IF fail = "read" THEN "write" ELSE fail) IN
         IF r.err THEN r ELSE [r EXCEPT !.perms = PermsAdd(@, filePath, TRUE)]

\* getSystemProbePath
getSystemProbePath(ddCfgFilePath) == Join(<<Dir(ddCfgFilePath), SystemProbeYAML>>)

\* The end of writeConfigFiles: the configuration file in use and, best
\* effort, the system-probe one beside it.
writeUsedConfigFiles ==
    /\ pc = "confused"
    /\ \E used \in BOOLEAN, probeExists \in BOOLEAN,
          fail \in {"none", "mkdir", "open", "read"},
          probeFail \in {"none", "read"} :
          /\ fail # "none" => probeFail = "none"
          /\ ~used => (fail = "none" /\ probeFail = "none" /\ ~probeExists)
          /\ Faulty(IF fail # "none" THEN fail ELSE probeFail)
          /\ LET r == createConfigFiles(ConfigFileUsed, hostname, TRUE, fail, Workspace)
                 q == createConfigFiles(getSystemProbePath(ConfigFileUsed), hostname,
                                        probeExists, probeFail,
                                        [r EXCEPT !.err = FALSE])
             IN Leaves(IF ~used THEN Workspace ELSE IF r.err THEN r ELSE q)
    /\ pc' = "expvar"
    /\ UNCHANGED <<ret, commits, gets, toWalk, hostname, ArchOthers>>

\* The variables expvar.Do goes through: the expvar package always publishes
\* these two.
ExpvarKeys == <<<<"c","m","d","l","i","n","e">>, <<"m","e","m","s","t","a","t","s">>>>

RECURSIVE WriteExpvarKeys(_, _, _, _)
\* The loop of writeExpVar over the variables; fail hits the first one.
WriteExpvarKeys(host, keys, fail, st) ==
    IF keys = <<>> THEN st
    ELSE LET r == WriteThroughWriter(st, Join(<<TempDir, host, ExpvarDir, Head(keys)>>),
                                     <<>>, "data", fail) IN
         IF r.err THEN r ELSE WriteExpvarKeys(host, Tail(keys), "none", r)

\* The end of writeExpVar: expvar/trace-agent is opened, then the GET is made
\* and what it gave is written.
WriteTraceAgent(host, http, fail, st) ==
    LET f == Join(<<TempDir, host, ExpvarDir, TraceAgent>>) IN
    IF fail = "decode" /\ http = "ok"
    THEN WriteNoMkdir(st, f, "data", "write")
    ELSE WriteNoMkdir(st, f,
                      IF http = "transport" THEN "errtext"
                      ELSE IF http = "status" THEN "statustext"
                      ELSE "data",
                      fail)

writeExpVar ==
    /\ pc = "expvar"
    /\ \E fail \in SourceFails, http \in HTTPResults, traceFail \in {"none", "open", "decode"} :
          /\ fail # "none" => (traceFail = "none" /\ http = "ok")
          /\ traceFail = "decode" => http = "ok"
          /\ Faulty(IF fail # "none" THEN fail
                    ELSE IF traceFail # "none" THEN traceFail
                    ELSE IF http # "ok" THEN http ELSE "none")
          /\ LET r == WriteExpvarKeys(hostname, ExpvarKeys, fail, Workspace)
                 done == r.err \/ traceFail = "open"
             IN /\ Leaves(IF r.err THEN r
                          ELSE WriteTraceAgent(hostname, http, traceFail, r))
                /\ gets' = IF done THEN gets
                           ELSE [gets EXCEPT !["trace-agent"] = http]
    /\ pc' = "sysprobe"
    /\ UNCHANGED <<ret, commits, toWalk, hostname, ArchOthers>>

\* writeSystemProbeStats, when system_probe_config.enabled.
writeSystemProbeStats ==
    /\ pc = "sysprobe"
    /\ \E fail \in {"none", "open", "write"} :
          /\ Faulty(fail)
          /\ Leaves(WriteNoMkdir(Workspace, HostFile(<<ExpvarDir, SystemProbe>>),
                                 "data", fail))
    /\ pc' = "diagnose"
    /\ UNCHANGED <<ret, commits, gets, toWalk, hostname, ArchOthers>>

skipSystemProbeStats == Skipped("sysprobe", "diagnose")

writeDiagnose == LoggedStep("diagnose", "registry", DiagnoseLog, IOFails)

writeRegistryJSON ==
    CopiedStep("registry", "versionhistory", Join(<<RunPath, RegistryJSON>>),
               RegistryJSON)

writeVersionHistory ==
    CopiedStep("versionhistory", "secrets", Join(<<RunPath, VersionHistoryJSON>>),
               VersionHistoryJSON)

writeSecrets == LoggedStep("secrets", "envvars", SecretsLog, IOFails)

writeEnvvars == LoggedStep("envvars", "health", EnvvarsLog, IOFails)

writeHealth == LoggedStep("health", "telemetry", HealthYAML, SourceFails)

\* writeHTTPCallContent: the GET first, then the file, then io.Copy of the
\* body, whatever the status of the response.
writeHTTPCallContent(host, filename, http, fail, st) ==
    IF http = "transport" THEN [st EXCEPT !.err = TRUE]
    ELSE WriteThroughWriter(st, Join(<<TempDir, host, filename>>), <<>>,
                            IF http = "ok" THEN "body" ELSE "statusbody", fail)

HTTPStep(from, to, name, filename) ==
    /\ pc = from
    /\ \E http \in HTTPResults, fail \in IOFails :
          /\ http # "ok" => fail = "none"
          /\ Faulty(IF http # "ok" THEN http ELSE fail)
          /\ Leaves(writeHTTPCallContent(hostname, filename, http, fail, Workspace))
          /\ gets' = [gets EXCEPT ![name] = http]
    /\ pc' = to
    /\ UNCHANGED <<ret, commits, toWalk, hostname, ArchOthers>>

\* writeTelemetry, when telemetry.enabled.
writeTelemetry == HTTPStep("telemetry", "stack", "telemetry", TelemetryLog)

skipTelemetry == Skipped("telemetry", "stack")

writeStackTraces == HTTPStep("stack", "dockerinspect", "stack", routineDumpFilename)

\* writeDockerSelfInspect, when config.IsContainerized().
writeDockerSelfInspect ==
    LoggedStep("dockerinspect", "dockerps", DockerInspectLog, SourceFails)

skipDockerSelfInspect == Skipped("dockerinspect", "dockerps")

writeDockerPs == LoggedStep("dockerps", "typeperf", DockerPsLog, SourceFails)

\* writeTypeperfData and writeCounterStrings write nothing on this platform;
\* their error is logged.
NoFileStep(from, to) ==
    /\ pc = from
    /\ \E fail \in {"none", "source"} : Faulty(fail)
    /\ pc' = to
    /\ UNCHANGED <<opened, ret, bundle, dirs, permsInfos, commits, gets, toWalk, hostname,
                   ArchOthers>>

writeTypeperfData == NoFileStep("typeperf", "counterstrings")

writeCounterStrings == NoFileStep("counterstrings", "logs")

RECURSIVE WalkLogs(_, _, _, _)
\* filepath.Walk of writeLogFiles over the entries of the log directory: a
\* file named *.log or *.log.* is recorded in the tracker, then copied; fail
\* hits the first such file.  The walk ends at the first error.
WalkLogs(host, entries, fail, st) ==
    IF entries = <<>> \/ fail = "nilinfo" THEN st
    ELSE LET e == Head(entries)
             name == Base(e.src)
             isLog == /\ ~e.isDir
                      /\ \/ Ext(name) = <<".","l","o","g">>
                         \/ getFirstSuffix(name) = <<".","l","o","g">>
             r == CopyFileAll([st EXCEPT !.perms = PermsAdd(@, e.src, TRUE)],
                              e.src, Join(<<TempDir, host, LogsDir, name>>), fail)
         IN IF ~isLog THEN WalkLogs(host, Tail(entries), fail, st)
            ELSE IF r.err THEN r
            ELSE WalkLogs(host, Tail(entries), "none", r)

\* log.Flush and writeLogFiles: the walk, then the directories above the log
\* directory when the tracker is not empty.
writeLogFiles ==
    /\ pc = "logs"
    /\ \E fail \in {"none", "nilinfo", "copy"} :
          /\ Faulty(fail)
          /\ LET r == WalkLogs(hostname, LogTree, fail, Workspace) IN
                Leaves(IF r.perms # {}
                       THEN [r EXCEPT !.perms = addParentPerms(Abs(Dir(LogFilePath)), @)]
                       ELSE r)
    /\ pc' = "installinfo"
    /\ UNCHANGED <<ret, commits, gets, toWalk, hostname, ArchOthers>>

writeInstallInfo ==
    CopiedStep("installinfo", "commit", Join(<<Dir(ConfigFileUsed), InstallInfo>>),
               InstallInfo)

\* permsInfos.commit writes permissions.log through the writer; createArchive
\* logs its error and returns nil.
commitPerms ==
    /\ pc = "commit"
    /\ \E fail \in IOFails :
          /\ Faulty(fail)
          /\ Leaves(WriteThroughWriter(Workspace, HostFile(<<PermissionsLog>>), <<>>,
                                       "perms", fail))
    /\ commits' = commits + 1
    /\ ret' = "nil"
    /\ pc' = "done"
    /\ UNCHANGED <<gets, toWalk, hostname, ArchOthers>>

ArchNext ==
    \/ createTempDir \/ resolveHostname
    \/ writeLocal \/ writeStatusFileLocal \/ writeConfigCheckLocal
    \/ writeStatusFile \/ writeConfigCheck \/ writeTaggerList
    \/ authTokenPerms
    \/ writeRuntimeConfigDump \/ walkConfigFilePaths \/ writeUsedConfigFiles
    \/ writeExpVar
    \/ writeSystemProbeStats \/ skipSystemProbeStats
    \/ writeDiagnose \/ writeRegistryJSON \/ writeVersionHistory
    \/ writeSecrets \/ writeEnvvars \/ writeHealth
    \/ writeTelemetry \/ skipTelemetry
    \/ writeStackTraces
    \/ writeDockerSelfInspect \/ skipDockerSelfInspect
    \/ writeDockerPs \/ writeTypeperfData \/ writeCounterStrings
    \/ writeLogFiles \/ writeInstallInfo \/ commitPerms

SpecArchive == ArchInit /\ [][ArchNext]_vars

(***************************************************************************)
(* SpecParents: addParentPerms(dirPath, permsInfos), one turn of its loop  *)
(* at a time.  pAdded holds the calls of permsInfos.add, in their order.    *)
(***************************************************************************)
MaxDepth == 3

\* The elements the paths given to addParentPerms are made of.
PathElems == {<<"a">>, <<"b", "c">>, Dot, DotDot}

\* Relative and absolute paths of up to MaxDepth elements, the empty path
\* and the root among them, with and without a trailing separator.
ParentInputs ==
    LET rel == {JoinElems(es) : es \in SeqsUpTo(PathElems, MaxDepth)} IN
    rel \cup {Slash \o r : r \in rel} \cup {r \o Slash : r \in rel \ {<<>>}}

ParentsInit ==
    /\ pDirPath = <<>>
    /\ pParent = <<>>
    /\ pAdded = <<>>
    /\ ppc = "call"
    /\ RedactIdle /\ CleanIdle /\ WalkIdle /\ ArchIdle

\* addParentPerms is called with some path: parent := filepath.Dir(dirPath)
EnterLoop ==
    /\ ppc = "call"
    /\ pDirPath' \in ParentInputs
    /\ pParent' = Dir(pDirPath')
    /\ ppc' = "loop"
    /\ UNCHANGED <<pAdded, redactVars, cleanVars, walkVars, archVars>>

\* for parent != "." : the loop is left, or not entered.
LoopExit ==
    /\ ppc = "loop"
    /\ pParent = Dot
    /\ ppc' = "done"
    /\ UNCHANGED <<pDirPath, pParent, pAdded, redactVars, cleanVars, walkVars, archVars>>

\* parent is its own parent: permsInfos.add(parent); break.
LoopRoot ==
    /\ ppc = "loop"
    /\ pParent # Dot
    /\ IsOwnParent(pParent)
    /\ pAdded' = Append(pAdded, pParent)
    /\ ppc' = "done"
    /\ UNCHANGED <<pDirPath, pParent, redactVars, cleanVars, walkVars, archVars>>

\* permsInfos.add(parent); parent = filepath.Dir(parent)
LoopStep ==
    /\ ppc = "loop"
    /\ pParent # Dot
    /\ ~IsOwnParent(pParent)
    /\ pAdded' = Append(pAdded, pParent)
    /\ pParent' = Dir(pParent)
    /\ UNCHANGED <<pDirPath, ppc, redactVars, cleanVars, walkVars, archVars>>

ParentsNext == EnterLoop \/ LoopExit \/ LoopRoot \/ LoopStep

\* The loop is sequential code: a turn that can be taken is taken.
SpecParents == ParentsInit /\ [][ParentsNext]_vars /\ WF_vars(ParentsNext)

(***************************************************************************)
(* Properties of the replacer (SpecRedact).                                *)
(***************************************************************************)
\* The fields of an occurrence of  api_key \s* : \s* value  at position i of
\* s, the value running to the next whitespace: colon is 0 when there is no
\* such occurrence.
KeyAt(s, i) ==
    IF ~HasPrefixAt(s, i, APIKeyWord) THEN [colon |-> 0, from |-> 0, to |-> 0]
    ELSE LET j == SkipWhile(s, i + Len(APIKeyWord), SpaceChars) IN
         IF j > Len(s) \/ s[j] # ":" THEN [colon |-> 0, from |-> 0, to |-> 0]
         ELSE LET k == SkipWhile(s, j + 1, SpaceChars)
                  NonSpace == {s[n] : n \in 1..Len(s)} \ SpaceChars
                  e == SkipWhile(s, k, NonSpace) IN
              IF e > k THEN [colon |-> j, from |-> k, to |-> e]
              ELSE [colon |-> 0, from |-> 0, to |-> 0]

HasKeyAt(s, i) == KeyAt(s, i).colon # 0

MaskedKey ==
    <<"a","p","i","_","k","e","y",":"," ","*","*","*","*","*","*","*","*">>

\* The output holds the mask where the occurrence at i was, and after the mask
\* the text goes on with what followed the value.
MaskedAt(in, out, i) ==
    out = Redact(SubSeq(in, 1, i - 1)) \o MaskedKey
            \o Redact(SubSeq(in, KeyAt(in, i).to, Len(in)))

\* The value of the occurrence at i is made of characters of the class only.
ValueInClass(s, i) ==
    \A n \in KeyAt(s, i).from..(KeyAt(s, i).to - 1) :
        s[n] \in Lower \cup Upper \cup Digit \cup
                 {"\\", "/", "^", "]", "[", "(", ")", "{", "}", "!", "|", "%",
                  ":", ";", "\"", "~", ">", "<", "=", "#", "@", "$", "_", "-", "+"}

\* The occurrence at i lies in the value of an occurrence that starts before it.
InsideEarlierValue(s, i) ==
    \E m \in 1..(i - 1) :
        HasKeyAt(s, m) /\ KeyAt(s, m).from <= i /\ i < KeyAt(s, m).to

\* C7 as stated: every api_key occurrence with a non-empty value, whatever the
\* characters of the value, is replaced by the mask at its position and nothing
\* of the value follows the mask.
C7_AnyValueMasked ==
    rpc # "open" =>
        \A i \in 1..Len(rIn) : HasKeyAt(rIn, i) => MaskedAt(rIn, rOut, i)

\* C7 amended: an api_key occurrence whose value is made of characters of the
\* class only, and which does not lie in the value of an earlier occurrence, is
\* replaced by the mask at its position and nothing of the value follows.
C7_ClassValueMasked ==
    rpc # "open" =>
        \A i \in 1..Len(rIn) :
            (HasKeyAt(rIn, i) /\ ValueInClass(rIn, i) /\ ~InsideEarlierValue(rIn, i))
                => MaskedAt(rIn, rOut, i)

\* A text with text before the key and text after the value has been scrubbed.
C7_Witness ==
    /\ rpc = "written"
    /\ \E i \in 2..Len(rIn) :
          /\ HasKeyAt(rIn, i) /\ ValueInClass(rIn, i) /\ ~InsideEarlierValue(rIn, i)
          /\ KeyAt(rIn, i).to <= Len(rIn)
          /\ rOut # rIn

\* C8: scrubbing a scrubbed text changes nothing, and no mask of the scrubbed
\* text is matched by otherAPIKeysRx.
C8_Idempotent ==
    /\ rpc = "rewritten" => rAgain = rOut
    /\ rpc # "open" =>
          \A p \in 1..Len(rOut) :
              HasPrefixAt(rOut, p, MaskedKey) => otherAPIKeysRxAt(rOut, p) = 0

\* A text in which a key was masked has gone through the replacer twice.
C8_Witness ==
    /\ rpc = "rewritten"
    /\ rOut # rIn
    /\ \E p \in 1..Len(rOut) : HasPrefixAt(rOut, p, MaskedKey)

(***************************************************************************)
(* Properties of the hostname directory (SpecClean).                       *)
(***************************************************************************)
\* C9: the directory name createArchive returns has at most 32 characters,
\* all in [A-Za-z0-9_-], and is the sanitized "unknown" when the hostname
\* could not be resolved.
C9_CleanName ==
    hpc \in {"cleaned", "returned"} =>
        /\ Len(hostname) <= 32
        /\ \A n \in 1..Len(hostname) :
              hostname[n] \in Lower \cup Upper \cup Digit \cup {"_", "-"}
        /\ (hpc = "cleaned" /\ hErr) => hostname = cleanDirectoryName(Unknown)

\* A resolved hostname with characters that are not allowed, and still longer
\* than 32 characters once they are replaced, has been sanitized and cut.
C9_Witness ==
    /\ hpc = "cleaned"
    /\ ~hErr
    /\ \E n \in 1..Len(hRaw) : hRaw[n] \in {".", "/"}
    /\ Len(FilterFrom(hRaw, 1)) > 32
    /\ Len(hostname) = 32

(***************************************************************************)
(* Properties of the configuration walk (SpecWalk).                        *)
(***************************************************************************)
\* The file names C5 says are shipped: the last extension is not .example,
\* and the last extension or the one before it is exactly .yml or .yaml,
\* whatever the case of its letters.
ExactYamlName(name) ==
    /\ Ext(name) # <<".","e","x","a","m","p","l","e">>
    /\ \/ MapLower(Ext(name)) \in {<<".","y","m","l">>, <<".","y","a","m","l">>}
       \/ MapLower(getFirstSuffix(name)) \in {<<".","y","m","l">>, <<".","y","a","m","l">>}

\* C5: a visited entry is copied into etc/confd/<prefix>/ if and only if it is
\* a regular file whose name is as ExactYamlName says; any other file and any
\* directory leaves no entry.
C5_CopiedIffYaml ==
    (wpc = "visited" /\ wFail = "none") =>
        /\ (wBundle # {}) <=> (~wIsDir /\ ExactYamlName(Base(wSrc)))
        /\ \A e \in wBundle :
              /\ e.src = wSrc
              /\ HasPrefixAt(e.path, 1, Join(<<TempDir, HostDir, <<"e","t","c">>, <<"c","o","n","f","d">>, wPrefix>>))

(***************************************************************************)
(* Properties of createArchive (SpecArchive).                              *)
(***************************************************************************)
\* createTempDir succeeded.
WorkspaceMade == TempDir \in dirs

\* C1: createArchive returns an error only when createTempDir failed; once
\* the workspace exists it returns nil, in local mode too and whichever calls
\* failed.
C1_ErrorOnlyFromTempDir ==
    (pc = "done" /\ ret = "err") => ~WorkspaceMade

\* C2: every file of the bundle was written through a writer of
\* newRedactingWriter.
C2_AllThroughRedactingWriter ==
    \A e \in bundle : e.via = "redacting"

\* C3: when the workspace was made, createArchive has called
\* permsInfos.commit exactly once when it returns, and never more than once.
C3_CommitExactlyOnce ==
    /\ commits <= 1
    /\ (pc = "done" /\ WorkspaceMade) => commits = 1

\* The files whose content has been copied into the bundle.
ShippedSources == {e.src : e \in {x \in bundle : x.content = "file"}}

\* C4: every path of the tracker is a file whose content has been copied into
\* the bundle, or a directory above such a file.
C4_TrackedOnlyIfShipped ==
    \A p \in permsInfos :
        \E src \in ShippedSources : p = src \/ p \in DirsAbove(src)

\* C6: when the GET of an HTTP collector failed or gave a status that is not
\* a success, the file of the collector is in the bundle and holds the text of
\* the error.
C6_HTTPFailureText ==
    \A c \in DOMAIN gets :
        gets[c] \in {"transport", "status"} =>
            \E e \in bundle :
                /\ e.path = HostFile(ArchFiles[c])
                /\ e.content \in {"errtext", "statustext"}

\* The files walkConfigFilePaths and writeLogFiles have copied.
WalkedCopies ==
    {e \in bundle :
        /\ e.content = "file"
        /\ \/ HasPrefixAt(e.path, 1, HostFile(<<EtcDir, ConfdDir>>) \o Slash)
           \/ HasPrefixAt(e.path, 1, HostFile(<<LogsDir>>) \o Slash)}

\* C10: the tracker holds the source of every configuration file and log file
\* that was copied, and every directory above it, from the one it is in to
\* the root of the filesystem.
C10_AncestorsTracked ==
    \A e \in WalkedCopies :
        /\ e.src \in permsInfos
        /\ DirsAbove(Abs(e.src)) \subseteq permsInfos

\* The configuration files walkConfigFilePaths ships from the search path of
\* prefix.
ShippedFrom(prefix) ==
    {ConfTree(prefix)[i].src : i \in
        {j \in DOMAIN ConfTree(prefix) :
            /\ ~ConfTree(prefix)[j].isDir
            /\ IsShippedConfigName(Base(ConfTree(prefix)[j].src))}}

\* C11: the destinations of two search paths never meet, so that when
\* walkConfigFilePaths has gone through every search path without error, in
\* whichever order, each shipped configuration file is in the bundle at its
\* destination etc/confd/<prefix>/<relative path>, as a copy of that file.
C11_DestinationsDisjoint ==
    pc = "confused" =>
        \A prefix \in ConfPrefixes : \A src \in ShippedFrom(prefix) :
            \E e \in bundle :
                /\ e.path = ConfDest(TempDir, hostname, prefix, ConfRoot(prefix), src)
                /\ e.src = src

\* C12: every call of newRedactingWriter on a path of the bundle comes after
\* a call of ensureParentDirsExist on that path, in the same collector.
C12_EnsuredBeforeOpen ==
    \A call \in opened : call.ensured

(***************************************************************************)
(* Properties of addParentPerms (SpecParents).                             *)
(***************************************************************************)
\* The paths in the calls of permsInfos.add.
AddedSet == {pAdded[i] : i \in DOMAIN pAdded}

\* What holds of every path once addParentPerms has returned: the calls are
\* those of addParentPerms as createArchive uses it, and the root is added
\* once, and last, for an absolute path.
ParentsDone ==
    /\ AddedSet = addParentPerms(pDirPath, {})
    /\ IsAbs(pDirPath) =>
          /\ pAdded # <<>>
          /\ pAdded[Len(pAdded)] = Slash
          /\ Cardinality({i \in DOMAIN pAdded : pAdded[i] = Slash}) = 1

\* addParentPerms returns, and each turn of its loop makes parent strictly
\* shorter.
ParentsTerminate ==
    /\ <>(ppc = "done")
    /\ [][(ppc = "loop" /\ ppc' = "loop") => Len(pParent') < Len(pParent)]_vars

\* A relative path of at most one element, however it is written.
AtMostOneElement ==
    ~IsAbs(pDirPath) /\ Len(SplitFrom(pDirPath, 1, <<>>)) <= 1

\* C13, as stated: addParentPerms returns for every path, absolute, relative
\* or empty; each turn of its loop makes parent strictly shorter; it leaves
\* the loop with parent "." or the root; the root is added once, and last,
\* for an absolute path; nothing is added for an empty path or a relative
\* path of one element.
C13_NothingForOneElement ==
    /\ ParentsTerminate
    /\ [](ppc = "done" =>
            /\ pParent = Dot \/ pParent = Slash
            /\ ParentsDone
            /\ AtMostOneElement => pAdded = <<>>)

\* C13, amended: as above, but the loop is left with parent ".", the root,
\* or a relative parent of one character, which is as long as its own
\* parent "."; and nothing is added exactly when filepath.Dir(dirPath) is
\* ".", which is so for the empty path and for a relative path without a
\* separator, while a path of one element written with a trailing separator
\* has that element added.
C13_AddParentPermsTerminates ==
    /\ ParentsTerminate
    /\ [](ppc = "done" =>
            /\ \/ pParent = Dot
               \/ pParent = Slash
               \/ ~IsAbs(pDirPath) /\ Len(pParent) = 1
            /\ ParentsDone
            /\ pAdded = <<>> <=> Dir(pDirPath) = Dot
            /\ (~IsAbs(pDirPath) /\ LastIndex(pDirPath, "/") = 0) => pAdded = <<>>)

\* An absolute path of several elements has been walked up to the root.
C13_Witness ==
    /\ ppc = "done"
    /\ IsAbs(pDirPath)
    /\ Len(pAdded) >= 3
    /\ pAdded[Len(pAdded)] = Slash

=============================================================================
